---------------------------- MODULE Spec2Model ----------------------------
(***************************************************************************)
(* A model of weserv::api::utils (src/src/api/utils/utility.h): the        *)
(* evaluation deadline governor (setup_timeout_handler / image_eval_cb),   *)
(* the multi-page crop reassembler, the position resolver, the metadata    *)
(* serialiser and the format capability resolver.                          *)
(*                                                                         *)
(* Strings of the program are sequences of one-character strings, so that  *)
(* substr, rfind and concatenation are computed and not assumed.           *)
(***************************************************************************)
EXTENDS Integers, Sequences, FiniteSets, TLC

VARIABLES
    setups,             \* per image: the process_timeout of each setup_timeout_handler call
    timeout,            \* per image: the time_t cells allocated with VIPS_NEW, in order
    handlers,           \* per image: the connected "eval" callbacks, each the index of its cell
    progress,           \* per image: vips_image_set_progress has turned reporting on
    kill,               \* per image: the image's kill flag
    killCalls,          \* per image: the number of vips_image_set_kill calls made
    vips_error_buffer,  \* the backend's error log: one entry per vips_error call
    last,               \* the operation that produced the current state
    pc,                 \* position in the function under check: "idle" (none), "ready", "loop", "done"
    args,               \* the inputs of the function under check
    ret,                \* its return value
    log,                \* the backend operations issued so far
    pages,              \* crop_multi_page: the vector of extracted pages
    i                   \* crop_multi_page: the loop index

govVars == <<setups, timeout, handlers, progress, kill, killCalls, vips_error_buffer>>
funVars == <<pc, args, ret, log, pages, i>>
vars == <<setups, timeout, handlers, progress, kill, killCalls, vips_error_buffer,
          last, pc, args, ret, log, pages, i>>

None == [op |-> "none"]

Max(a, b) == IF a >= b THEN a ELSE b
Min(a, b) == IF a <= b THEN a ELSE b

(***************************************************************************)
(* Bounds of the model.                                                    *)
(***************************************************************************)
MaxTimeout == 2     \* process_timeout is drawn from -1 .. MaxTimeout
MaxRun == 2         \* progress->run is drawn from 0 .. MaxRun
MaxSetups == 2      \* setup_timeout_handler calls per image

Images == {"imgA", "imgB"}
OneImage == {"imgA"}
Timeouts == -1 .. MaxTimeout
Runs == 0 .. MaxRun
Percents == {10, 90}

(***************************************************************************)
(* Evaluation deadline governor.                                           *)
(***************************************************************************)

\* The arguments vips_error receives from image_eval_cb: the format string's
\* %ld, %s, %d, %s, %d in order.
TimeoutMessage(t, run, percent) ==
    [domain |-> "weserv",
     timeout |-> t, timeoutPlural |-> IF t > 1 THEN "s" ELSE "",
     run |-> run, runPlural |-> IF run > 1 THEN "s" ELSE "",
     percent |-> percent]

\* image_eval_cb without its last assignment, *timeout = 0.
image_eval_cb_keeps_budget(t, run, percent) ==
    IF t > 0 /\ run >= t
    THEN [cell |-> t, setKill |-> TRUE,
          errors |-> <<TimeoutMessage(t, run, percent)>>]
    ELSE [cell |-> t, setKill |-> FALSE, errors |-> <<>>]

\* image_eval_cb comparing progress->run > *timeout instead of >=.
image_eval_cb_strict(t, run, percent) ==
    IF t > 0 /\ run > t
    THEN [cell |-> 0, setKill |-> TRUE,
          errors |-> <<TimeoutMessage(t, run, percent)>>]
    ELSE [cell |-> t, setKill |-> FALSE, errors |-> <<>>]

\* image_eval_cb(image, progress, timeout) on the cell value t: the cell's new
\* value, whether vips_image_set_kill(image, 1) is called, and the messages
\* handed to vips_error.
image_eval_cb(t, run, percent) ==
    IF t > 0 /\ run >= t
    THEN [cell |-> 0, setKill |-> TRUE,
          errors |-> <<TimeoutMessage(t, run, percent)>>]
    ELSE [cell |-> t, setKill |-> FALSE, errors |-> <<>>]

\* The callbacks connected to an image run one after the other, in connection
\* order, each on its own cell: the state after the first k of them.
RECURSIVE EmitEval(_, _, _, _)
EmitEval(cells, hs, k, ev) ==
    IF k = 0
    THEN [cells |-> cells, kills |-> 0, errors |-> <<>>]
    ELSE LET before == EmitEval(cells, hs, k - 1, ev)
             c == hs[k]
             r == image_eval_cb(before.cells[c], ev.run, ev.percent)
         IN  [cells |-> [before.cells EXCEPT ![c] = r.cell],
              kills |-> before.kills + (IF r.setKill THEN 1 ELSE 0),
              errors |-> before.errors \o r.errors]

\* setup_timeout_handler guarded by process_timeout >= 0 instead of > 0.
setup_timeout_handler_arms_zero(img, process_timeout) ==
    /\ Len(setups[img]) < MaxSetups
    /\ setups' = [setups EXCEPT ![img] = Append(@, process_timeout)]
    /\ IF process_timeout >= 0
       THEN /\ timeout' = [timeout EXCEPT ![img] = Append(@, process_timeout)]
            /\ handlers' = [handlers EXCEPT ![img] = Append(@, Len(timeout[img]) + 1)]
            /\ progress' = [progress EXCEPT ![img] = TRUE]
       ELSE UNCHANGED <<timeout, handlers, progress>>
    /\ last' = [op |-> "setup", image |-> img, process_timeout |-> process_timeout]
    /\ UNCHANGED <<kill, killCalls, vips_error_buffer>>
    /\ UNCHANGED funVars

\* setup_timeout_handler(image, process_timeout)
setup_timeout_handler(img, process_timeout) ==
    /\ Len(setups[img]) < MaxSetups
    /\ setups' = [setups EXCEPT ![img] = Append(@, process_timeout)]
    /\ IF process_timeout > 0
       THEN /\ timeout' = [timeout EXCEPT ![img] = Append(@, process_timeout)]
            /\ handlers' = [handlers EXCEPT ![img] = Append(@, Len(timeout[img]) + 1)]
            /\ progress' = [progress EXCEPT ![img] = TRUE]
       ELSE UNCHANGED <<timeout, handlers, progress>>
    /\ last' = [op |-> "setup", image |-> img, process_timeout |-> process_timeout]
    /\ UNCHANGED <<kill, killCalls, vips_error_buffer>>
    /\ UNCHANGED funVars

\* Eval with one budget cell shared by every image, as a static time_t would
\* be: the trip of one image zeroes the budget of all.
Eval_shared_cell(img, run, percent) ==
    LET ev == [run |-> run, percent |-> percent]
        r == EmitEval(timeout[img], handlers[img], Len(handlers[img]), ev)
    IN  /\ timeout' = IF r.kills > 0
                      THEN [j \in Images |-> [k \in 1 .. Len(timeout[j]) |-> 0]]
                      ELSE timeout
        /\ kill' = [kill EXCEPT ![img] = @ \/ r.kills > 0]
        /\ killCalls' = [killCalls EXCEPT ![img] = @ + r.kills]
        /\ vips_error_buffer' = vips_error_buffer \o r.errors
        /\ last' = [op |-> "eval", image |-> img, run |-> run, percent |-> percent]
        /\ UNCHANGED <<setups, handlers, progress>>
        /\ UNCHANGED funVars

\* The backend emits "eval" on an image: every connected image_eval_cb runs.
Eval(img, run, percent) ==
    LET ev == [run |-> run, percent |-> percent]
        r == EmitEval(timeout[img], handlers[img], Len(handlers[img]), ev)
    IN  /\ timeout' = [timeout EXCEPT ![img] = r.cells]
        /\ kill' = [kill EXCEPT ![img] = @ \/ r.kills > 0]
        /\ killCalls' = [killCalls EXCEPT ![img] = @ + r.kills]
        /\ vips_error_buffer' = vips_error_buffer \o r.errors
        /\ last' = [op |-> "eval", image |-> img, run |-> run, percent |-> percent]
        /\ UNCHANGED <<setups, handlers, progress>>
        /\ UNCHANGED funVars

FunIdle ==
    /\ pc = "idle" /\ args = None /\ ret = None
    /\ log = <<>> /\ pages = <<>> /\ i = 0

GovInit ==
    /\ setups = [img \in Images |-> <<>>]
    /\ timeout = [img \in Images |-> <<>>]
    /\ handlers = [img \in Images |-> <<>>]
    /\ progress = [img \in Images |-> FALSE]
    /\ kill = [img \in Images |-> FALSE]
    /\ killCalls = [img \in Images |-> 0]
    /\ vips_error_buffer = <<>>

Init ==
    /\ GovInit
    /\ last = None
    /\ FunIdle

\* One image handle, set up and notified in any order.
Next ==
    \/ \E img \in OneImage, t \in Timeouts : setup_timeout_handler(img, t)
    \/ \E img \in OneImage, run \in Runs, p \in Percents : Eval(img, run, p)

Spec == Init /\ [][Next]_vars

(***************************************************************************)
(* Claims about the evaluation deadline governor.                          *)
(***************************************************************************)

\* The positions of the setup calls that armed the image.
Armings(img) == {k \in 1 .. Len(setups[img]) : setups[img][k] > 0}
\* The image was armed by exactly one setup_timeout_handler call.
ArmedOnce(img) == Cardinality(Armings(img)) = 1
\* The budget that call passed.
Budget(img) == setups[img][CHOOSE k \in Armings(img) : TRUE]
\* Every setup_timeout_handler call on the image passed process_timeout <= 0.
NoTimeout(img) ==
    /\ setups[img] # <<>>
    /\ \A k \in 1 .. Len(setups[img]) : setups[img][k] <= 0
\* The step delivers a progress notification to the image.
Notified(img) == last'.op = "eval" /\ last'.image = img

RECURSIVE SumKillCalls(_)
SumKillCalls(S) ==
    IF S = {} THEN 0
    ELSE LET img == CHOOSE x \in S : TRUE
         IN  killCalls[img] + SumKillCalls(S \ {img})

\* C1: for an image armed once with a budget > 0, the kill flag is set at most
\* once and each set comes with exactly one recorded error; once the image has
\* tripped the stored budget is 0 and stays 0, and a notification delivered
\* after the trip, whatever elapsed value it reports, calls neither
\* vips_image_set_kill nor vips_error.
C1_TripAtMostOnce ==
    /\ [](/\ \A img \in Images : ArmedOnce(img) => killCalls[img] <= 1
          /\ Len(vips_error_buffer) = SumKillCalls(Images))
    /\ [][\A img \in Images :
            (ArmedOnce(img) /\ ArmedOnce(img)' /\ killCalls[img] >= 1) =>
                /\ timeout[img] = <<0>>
                /\ timeout'[img] = <<0>>
                /\ Notified(img) =>
                       /\ killCalls'[img] = killCalls[img]
                       /\ kill'[img] = kill[img]
                       /\ vips_error_buffer' = vips_error_buffer]_vars

\* C1 witness: budget 2 tripped at elapsed 2 with 10 percent done, and a later
\* notification, again with elapsed 2, has been delivered.
C1_Witness ==
    /\ setups["imgA"] = <<2>>
    /\ vips_error_buffer = <<TimeoutMessage(2, 2, 10)>>
    /\ killCalls["imgA"] = 1
    /\ last = [op |-> "eval", image |-> "imgA", run |-> 2, percent |-> 90]

\* C2: for an image armed once and not yet tripped (stored budget B > 0), a
\* notification with elapsed e < B changes neither the budget, the kill flag
\* nor the error log; one with e >= B sets the kill flag, hands vips_error one
\* message carrying B, e and the notification's percent, and zeroes the budget.
C2_ArmedToTripped ==
    [][\A img \in Images :
        (Notified(img) /\ ArmedOnce(img) /\ timeout[img] # <<0>>) =>
            LET B == Budget(img)
                e == last'.run
            IN  /\ timeout[img] = <<B>>
                /\ ~kill[img]
                /\ IF e < B
                   THEN /\ timeout'[img] = <<B>>
                        /\ ~kill'[img]
                        /\ killCalls'[img] = killCalls[img]
                        /\ vips_error_buffer' = vips_error_buffer
                   ELSE /\ timeout'[img] = <<0>>
                        /\ kill'[img]
                        /\ killCalls'[img] = killCalls[img] + 1
                        /\ Len(vips_error_buffer') = Len(vips_error_buffer) + 1
                        /\ SubSeq(vips_error_buffer', 1, Len(vips_error_buffer))
                               = vips_error_buffer
                        /\ LET m == vips_error_buffer'[Len(vips_error_buffer')]
                           IN  /\ m.timeout = B
                               /\ m.run = e
                               /\ m.percent = last'.percent]_vars

\* C2 witness: budget 2, and the notification just delivered reported elapsed 2
\* at 90 percent and tripped the governor.
C2_Witness ==
    /\ setups["imgA"] = <<2>>
    /\ last = [op |-> "eval", image |-> "imgA", run |-> 2, percent |-> 90]
    /\ timeout["imgA"] = <<0>>
    /\ kill["imgA"]
    /\ vips_error_buffer = <<TimeoutMessage(2, 2, 90)>>

\* C3: a setup_timeout_handler call with process_timeout <= 0 allocates no
\* cell, connects no callback and leaves progress reporting as it was; an image
\* set up only by such calls has no cell, no callback, progress reporting off,
\* is never killed, and its notifications record no error.
C3_NoTimeoutMode ==
    /\ [](\A img \in Images : NoTimeout(img) =>
            /\ timeout[img] = <<>>
            /\ handlers[img] = <<>>
            /\ ~progress[img]
            /\ ~kill[img]
            /\ killCalls[img] = 0)
    /\ [][/\ (last'.op = "setup" /\ last'.process_timeout <= 0) =>
               /\ timeout' = timeout
               /\ handlers' = handlers
               /\ progress' = progress
           /\ \A img \in Images : (NoTimeout(img) /\ Notified(img)) =>
               /\ vips_error_buffer' = vips_error_buffer
               /\ kill' = kill]_vars

\* C3 witness: the image was set up with process_timeout 0 and has since been
\* notified of an elapsed time of 2 seconds.
C3_Witness ==
    /\ setups["imgA"] = <<0>>
    /\ last = [op |-> "eval", image |-> "imgA", run |-> 2, percent |-> 90]


(***************************************************************************)
(* Multi-page crop reassembler.                                            *)
(*                                                                         *)
(* An image is the record of how the backend derived it: a source image,   *)
(* an extract_area of an image, or an arrayjoin of a vector of images.     *)
(* Each backend operation appends the image it returns to log.             *)
(***************************************************************************)
MaxPages == 3         \* n_pages is drawn from 1 .. MaxPages
MaxPageHeight == 3    \* page_height and height are drawn from 1 .. MaxPageHeight

SourceWidth == 3
SourceImages ==
    {[kind |-> "source", width |-> SourceWidth, height |-> h] :
        h \in 1 .. MaxPages * MaxPageHeight}

\* image.width(), image.height()
RECURSIVE Width(_)
RECURSIVE Height(_)
RECURSIVE MaxWidth(_, _)
RECURSIVE MaxHeight(_, _)
\* The widest and the tallest of the first k images of a vector.
MaxWidth(imgs, k) ==
    IF k = 0 THEN 0 ELSE Max(Width(imgs[k]), MaxWidth(imgs, k - 1))
MaxHeight(imgs, k) ==
    IF k = 0 THEN 0 ELSE Max(Height(imgs[k]), MaxHeight(imgs, k - 1))
Width(img) ==
    CASE img.kind = "source" -> img.width
      [] img.kind = "extract_area" -> img.width
      [] img.kind = "arrayjoin" ->
            \* a grid of cells, each as wide as the widest input
            Min(img.across, Len(img.in)) * MaxWidth(img.in, Len(img.in))
Height(img) ==
    CASE img.kind = "source" -> img.height
      [] img.kind = "extract_area" -> img.height
      [] img.kind = "arrayjoin" ->
            \* ceil(n / across) rows, each as tall as the tallest input
            ((Len(img.in) + img.across - 1) \div img.across)
                * MaxHeight(img.in, Len(img.in))

\* image.extract_area(left, top, width, height)
extract_area(img, left, top, width, height) ==
    [kind |-> "extract_area", in |-> img,
     left |-> left, top |-> top, width |-> width, height |-> height]

\* VImage::arrayjoin(pages, VImage::option()->set("across", across))
arrayjoin(in, across) ==
    [kind |-> "arrayjoin", in |-> in, across |-> across]

\* The backend accepts an extraction whose region lies inside the image.
InsideImage(img, left, top, width, height) ==
    /\ left >= 0 /\ top >= 0 /\ width > 0 /\ height > 0
    /\ left + width <= Width(img)
    /\ top + height <= Height(img)

\* The condition of crop_multi_page's fast path.
FastPath(a) == a.top = 0 /\ a.height = a.page_height

\* The fast path's extraction with the requested height times n_pages in
\* place of image.height().
FastRegion_from_pages(a) ==
    [left |-> a.left, top |-> 0, width |-> a.width,
     height |-> a.n_pages * a.height]

\* The region the fast path extracts.
FastRegion(a) ==
    [left |-> a.left, top |-> 0, width |-> a.width,
     height |-> Height(a.image)]

\* The loop's extraction without the page offset page_height * i.
PageRegion_no_offset(a, k) ==
    [left |-> a.left, top |-> a.top, width |-> a.width, height |-> a.height]

\* The region the loop extracts for page k (k = 0 .. n_pages - 1).
PageRegion(a, k) ==
    [left |-> a.left, top |-> a.page_height * k + a.top,
     width |-> a.width, height |-> a.height]

Extract(img, r) == extract_area(img, r.left, r.top, r.width, r.height)

\* The calls of crop_multi_page that are checked: the image holds at least
\* n_pages pages of page_height, and every region the call asks for lies
\* inside the image, so that the backend carries out each operation.
CropCalls ==
    {a \in [image : SourceImages,
            left : 0 .. 1, top : 0 .. MaxPageHeight - 1,
            width : 1 .. 2, height : 1 .. MaxPageHeight,
            n_pages : 1 .. MaxPages, page_height : 1 .. MaxPageHeight] :
        /\ a.n_pages * a.page_height <= Height(a.image)
        /\ IF FastPath(a)
           THEN InsideImage(a.image, a.left, 0, a.width, Height(a.image))
           ELSE \A k \in 0 .. a.n_pages - 1 :
                   InsideImage(a.image, a.left, a.page_height * k + a.top,
                               a.width, a.height)}

\* if (top == 0 && height == page_height) return image.extract_area(...)
CropFast ==
    /\ pc = "ready"
    /\ FastPath(args)
    /\ LET out == Extract(args.image, FastRegion(args))
       IN  /\ log' = Append(log, out)
           /\ ret' = out
    /\ pc' = "done"
    /\ UNCHANGED <<pages, i, args, last>>
    /\ UNCHANGED govVars

\* std::vector<VImage> pages; pages.reserve(n_pages); int i = 0
CropReserve ==
    /\ pc = "ready"
    /\ ~FastPath(args)
    /\ pages' = <<>>
    /\ i' = 0
    /\ pc' = "loop"
    /\ UNCHANGED <<log, ret, args, last>>
    /\ UNCHANGED govVars

\* One iteration of the loop: pages.push_back(image.extract_area(...)); i++
CropSplit ==
    /\ pc = "loop"
    /\ i < args.n_pages
    /\ LET out == Extract(args.image, PageRegion(args, i))
       IN  /\ log' = Append(log, out)
           /\ pages' = Append(pages, out)
    /\ i' = i + 1
    /\ UNCHANGED <<pc, ret, args, last>>
    /\ UNCHANGED govVars

\* The loop has ended: assembled = VImage::arrayjoin(pages, across = 1)
CropAssemble ==
    /\ pc = "loop"
    /\ ~(i < args.n_pages)
    /\ LET assembled == arrayjoin(pages, 1)
       IN  /\ log' = Append(log, assembled)
           /\ ret' = assembled
    /\ pc' = "done"
    /\ UNCHANGED <<pages, i, args, last>>
    /\ UNCHANGED govVars

CropInit ==
    /\ GovInit
    /\ last = None
    /\ pc = "ready"
    /\ args \in CropCalls
    /\ ret = None
    /\ log = <<>>
    /\ pages = <<>>
    /\ i = 0

CropNext == CropFast \/ CropReserve \/ CropSplit \/ CropAssemble

SpecCrop == CropInit /\ [][CropNext]_vars

(***************************************************************************)
(* Claims about the multi-page crop reassembler.                           *)
(***************************************************************************)

\* C4 as stated: the returned image is n_pages * height tall on the general
\* path and n_pages * page_height tall on the fast path.
C4_AsStated ==
    pc = "done" =>
        Height(ret) = IF FastPath(args)
                      THEN args.n_pages * args.page_height
                      ELSE args.n_pages * args.height

\* C4, amended: the returned image is n_pages * height tall on the general
\* path; on the fast path it is as tall as the source image, and so
\* n_pages * page_height tall exactly when the source image is.
C4_ResultHeight ==
    pc = "done" =>
        IF FastPath(args)
        THEN /\ Height(ret) = Height(args.image)
             /\ (Height(ret) = args.n_pages * args.page_height)
                    <=> (Height(args.image) = args.n_pages * args.page_height)
        ELSE Height(ret) = args.n_pages * args.height

\* C4 witness: the fast path has returned for the first 2 pages, each 2 tall,
\* of a source image 6 tall, and the result is 6 tall.
C4_Witness ==
    /\ pc = "done"
    /\ FastPath(args)
    /\ args.n_pages = 2 /\ args.page_height = 2
    /\ Height(args.image) = 6
    /\ Height(ret) = 6

\* The extraction the loop issues for page k.
ExpectedPage(a, k) ==
    [kind |-> "extract_area", in |-> a.image, left |-> a.left,
     top |-> a.page_height * k + a.top, width |-> a.width, height |-> a.height]

\* C5: the backend operations issued so far are, on the fast path, the one
\* extraction (left, 0, width, image height) and, on the general path, the
\* extractions of pages 0 .. i-1 in ascending order, each of the region
\* (left, page_height * k + top, width, height); when crop_multi_page has
\* returned the general path has issued exactly n_pages of them followed by one
\* arrayjoin with across = 1 whose k-th input is the k-th extracted image, and
\* that join is the result.
C5_OperationSequence ==
    /\ pc = "ready" => log = <<>>
    /\ pc = "loop" =>
        /\ ~FastPath(args)
        /\ i <= args.n_pages
        /\ Len(log) = i
        /\ \A k \in 1 .. i : log[k] = ExpectedPage(args, k - 1)
    /\ (pc = "done" /\ FastPath(args)) =>
        /\ log = <<[kind |-> "extract_area", in |-> args.image,
                    left |-> args.left, top |-> 0, width |-> args.width,
                    height |-> Height(args.image)]>>
        /\ ret = log[1]
    /\ (pc = "done" /\ ~FastPath(args)) =>
        LET n == args.n_pages
        IN  /\ Len(log) = n + 1
            /\ \A k \in 1 .. n : log[k] = ExpectedPage(args, k - 1)
            /\ log[n + 1].kind = "arrayjoin"
            /\ log[n + 1].across = 1
            /\ Len(log[n + 1].in) = n
            /\ \A k \in 1 .. n : log[n + 1].in[k] = log[k]
            /\ ret = log[n + 1]

\* C5 witness: the general path has returned for top = 1, height = 1,
\* page_height = 3 and 3 pages: three extractions and the join.
C5_Witness ==
    /\ pc = "done"
    /\ args.top = 1 /\ args.height = 1 /\ args.page_height = 3
    /\ args.n_pages = 3
    /\ Len(log) = 4
    /\ log[3].top = 7
    /\ ret.kind = "arrayjoin"

(***************************************************************************)
(* Position resolver.                                                      *)
(***************************************************************************)
MaxDim == 4           \* calculate_position: each dimension is drawn from 0 .. MaxDim

Positions ==
    {"TopLeft", "Top", "TopRight", "Left", "Centre", "Right",
     "BottomLeft", "Bottom", "BottomRight"}

Abs(x) == IF x < 0 THEN -x ELSE x

\* Division rounding toward minus infinity, which int / int is not.
IntDiv_floor(a, b) == a \div b

\* int / int: the quotient with its fractional part discarded.
IntDiv(a, b) ==
    LET q == Abs(a) \div Abs(b)
    IN  IF (a < 0) # (b < 0) THEN -q ELSE q

\* calculate_position(in_width, in_height, out_width, out_height, pos): the
\* switch over pos, on left = 0 and top = 0.
calculate_position(in_width, in_height, out_width, out_height, pos) ==
    CASE pos = "Top" ->
            [left |-> IntDiv(out_width - in_width, 2), top |-> 0]
      [] pos = "Right" ->
            [left |-> out_width - in_width,
             top |-> IntDiv(out_height - in_height, 2)]
      [] pos = "Bottom" ->
            [left |-> IntDiv(out_width - in_width, 2),
             top |-> out_height - in_height]
      [] pos = "Left" ->
            [left |-> 0, top |-> IntDiv(out_height - in_height, 2)]
      [] pos = "TopRight" ->
            [left |-> out_width - in_width, top |-> 0]
      [] pos = "BottomRight" ->
            [left |-> out_width - in_width, top |-> out_height - in_height]
      [] pos = "BottomLeft" ->
            [left |-> 0, top |-> out_height - in_height]
      [] pos = "TopLeft" ->
            [left |-> 0, top |-> 0]
      [] OTHER ->
            \* Centre
            [left |-> IntDiv(out_width - in_width, 2),
             top |-> IntDiv(out_height - in_height, 2)]

PositionCalls ==
    [in_width : 0 .. MaxDim, in_height : 0 .. MaxDim,
     out_width : 0 .. MaxDim, out_height : 0 .. MaxDim, pos : Positions]

CalculatePosition ==
    /\ pc = "ready"
    /\ ret' = calculate_position(args.in_width, args.in_height,
                                 args.out_width, args.out_height, args.pos)
    /\ pc' = "done"
    /\ UNCHANGED <<args, log, pages, i, last>>
    /\ UNCHANGED govVars

PositionInit ==
    /\ GovInit
    /\ last = None
    /\ pc = "ready"
    /\ args \in PositionCalls
    /\ ret = None
    /\ log = <<>>
    /\ pages = <<>>
    /\ i = 0

PositionNext == CalculatePosition

SpecPosition == PositionInit /\ [][PositionNext]_vars

\* q is d / 2 truncated toward zero: within one half of d / 2 and no larger
\* than it in magnitude.
IsHalfTowardZero(q, d) ==
    /\ Abs(d - 2 * q) <= 1
    /\ Abs(2 * q) <= Abs(d)

\* C7: for each of the nine anchors and all dimensions, out smaller than in
\* included, left is 0 in the left column, out_width - in_width in the right
\* column and half of it, truncated toward zero, in the middle column; top is
\* 0 in the top row, out_height - in_height in the bottom row and half of it,
\* truncated toward zero, in the middle row. Nothing is clamped.
C7_AnchorTable ==
    pc = "done" =>
        LET dw == args.out_width - args.in_width
            dh == args.out_height - args.in_height
        IN  /\ args.pos \in {"TopLeft", "Left", "BottomLeft"} => ret.left = 0
            /\ args.pos \in {"Top", "Centre", "Bottom"} =>
                    IsHalfTowardZero(ret.left, dw)
            /\ args.pos \in {"TopRight", "Right", "BottomRight"} =>
                    ret.left = dw
            /\ args.pos \in {"TopLeft", "Top", "TopRight"} => ret.top = 0
            /\ args.pos \in {"Left", "Centre", "Right"} =>
                    IsHalfTowardZero(ret.top, dh)
            /\ args.pos \in {"BottomLeft", "Bottom", "BottomRight"} =>
                    ret.top = dh

\* C7 witness: Centre with a 4 x 3 input on a 1 x 4 output: the differences
\* are -3 and 1, and the offsets are -1 and 0.
C7_Witness ==
    /\ pc = "done"
    /\ args = [in_width |-> 4, in_height |-> 3, out_width |-> 1,
               out_height |-> 4, pos |-> "Centre"]
    /\ ret = [left |-> -1, top |-> 0]

(***************************************************************************)
(* Focal point.                                                            *)
(*                                                                         *)
(* fpx and fpy are fractions num / den; the floating-point quotients and   *)
(* products are computed exactly, as fractions.                            *)
(***************************************************************************)
MaxIn == 3            \* in_width and in_height are drawn from 1 .. MaxIn
MaxTarget == 2        \* target_width and target_height, from 1 .. MaxTarget
MaxImage == 3         \* image_width and image_height, from 1 .. MaxImage

\* The focal coordinates checked: 0, 1/4, 1/2, 3/4 and 1.
FocalFractions == {[num |-> n, den |-> 4] : n \in 0 .. 4}

\* std::round of the fraction num / den, den > 0: to the nearest integer,
\* halves away from zero.
Round(num, den) ==
    IF num >= 0
    THEN (2 * num + den) \div (2 * den)
    ELSE -((2 * (-num) + den) \div (2 * den))

\* std::clamp(v, lo, hi): the values a build can return. With hi < lo the call
\* is undefined; the library implementations return lo or hi.
clamp(v, lo, hi) ==
    IF lo <= hi
    THEN {IF v < lo THEN lo ELSE IF hi < v THEN hi ELSE v}
    ELSE {lo, hi}

\* factor = std::min(ratio_x, ratio_y), as a fraction.
Factor(in_width, in_height, target_width, target_height) ==
    IF in_width * target_height <= in_height * target_width
    THEN [num |-> in_width, den |-> target_width]
    ELSE [num |-> in_height, den |-> target_height]

\* static_cast<int>(std::round((fp * in_dim) / factor - target_dim / 2.0))
Offset(fp, in_dim, factor, target_dim) ==
    LET cnum == fp.num * in_dim * factor.den      \* center = cnum / cden
        cden == fp.den * factor.num
    IN  Round(2 * cnum - target_dim * cden, 2 * cden)

\* The clamp of left against the image width alone.
ClampOffset_to_image(offset, image_dim, target_dim) ==
    clamp(offset, 0, image_dim)

\* left = std::clamp(left, 0, image_width - target_width), and top likewise.
ClampOffset(offset, image_dim, target_dim) ==
    clamp(offset, 0, image_dim - target_dim)

\* calculate_focal_point(fpx, fpy, in_width, in_height, target_width,
\* target_height, image_width, image_height): the pairs it can return.
calculate_focal_point(a) ==
    LET factor == Factor(a.in_width, a.in_height,
                         a.target_width, a.target_height)
        left == Offset(a.fpx, a.in_width, factor, a.target_width)
        top == Offset(a.fpy, a.in_height, factor, a.target_height)
    IN  {[left |-> l, top |-> t] :
            l \in ClampOffset(left, a.image_width, a.target_width),
            t \in ClampOffset(top, a.image_height, a.target_height)}

FocalCalls ==
    [fpx : FocalFractions, fpy : FocalFractions,
     in_width : 1 .. MaxIn, in_height : 1 .. MaxIn,
     target_width : 1 .. MaxTarget, target_height : 1 .. MaxTarget,
     image_width : 1 .. MaxImage, image_height : 1 .. MaxImage]

CalculateFocalPoint ==
    /\ pc = "ready"
    /\ ret' \in calculate_focal_point(args)
    /\ pc' = "done"
    /\ UNCHANGED <<args, log, pages, i, last>>
    /\ UNCHANGED govVars

FocalInit ==
    /\ GovInit
    /\ last = None
    /\ pc = "ready"
    /\ args \in FocalCalls
    /\ ret = None
    /\ log = <<>>
    /\ pages = <<>>
    /\ i = 0

FocalNext == CalculateFocalPoint

SpecFocal == FocalInit /\ [][FocalNext]_vars

\* C6 as stated: for all focal fractions in [0, 1] and all positive
\* dimensions, 0 <= left <= image_width - target_width and
\* 0 <= top <= image_height - target_height.
C6_AsStated ==
    pc = "done" =>
        /\ 0 <= ret.left /\ ret.left <= args.image_width - args.target_width
        /\ 0 <= ret.top /\ ret.top <= args.image_height - args.target_height

\* C6, amended: for all focal fractions in [0, 1] and all positive dimensions,
\* 0 <= left <= image_width - target_width whenever the image is at least as
\* wide as the target, and 0 <= top <= image_height - target_height whenever
\* it is at least as tall.
C6_WindowInBounds ==
    pc = "done" =>
        /\ args.image_width >= args.target_width =>
              (0 <= ret.left /\ ret.left <= args.image_width - args.target_width)
        /\ args.image_height >= args.target_height =>
              (0 <= ret.top /\ ret.top <= args.image_height - args.target_height)

\* C6 witness: focal point (1, 0) of a 3 x 3 original, target 2 x 2 in an
\* image 2 wide and 3 tall: the unclamped offsets are 1 and -1, the window can
\* only sit at left = 0, and the result is (0, 0).
C6_Witness ==
    /\ pc = "done"
    /\ args.fpx = [num |-> 4, den |-> 4] /\ args.fpy = [num |-> 0, den |-> 4]
    /\ args.in_width = 3 /\ args.in_height = 3
    /\ args.target_width = 2 /\ args.target_height = 2
    /\ args.image_width = 2 /\ args.image_height = 3
    /\ Offset(args.fpx, 3, [num |-> 3, den |-> 2], 2) = 1
    /\ Offset(args.fpy, 3, [num |-> 3, den |-> 2], 2) = -1
    /\ ret = [left |-> 0, top |-> 0]

(***************************************************************************)
(* Metadata introspector: image_to_json.                                   *)
(*                                                                         *)
(* The document is the sequence of its members, each a key and the value   *)
(* written after it, in the order the stream receives them.                *)
(***************************************************************************)
VIPS_META_ICC_NAME == "icc-profile-data"
VIPS_META_ORIENTATION == "orientation"
VIPS_META_N_PAGES == "n-pages"
VIPS_META_PAGE_HEIGHT == "page-height"

\* The metadata fields image_to_json asks for, and the value each holds when
\* it is set.
TagNames ==
    {VIPS_META_ICC_NAME, VIPS_META_ORIENTATION, "jpeg-chroma-subsample",
     "interlaced", "palette-bit-depth", VIPS_META_N_PAGES,
     VIPS_META_PAGE_HEIGHT, "loop", "delay", "heif-primary"}
TagValue(name) ==
    CASE name = VIPS_META_ICC_NAME -> "blob"
      [] name = VIPS_META_ORIENTATION -> 6
      [] name = "jpeg-chroma-subsample" -> "4:2:0"
      [] name = "interlaced" -> 1
      [] name = "palette-bit-depth" -> 8
      [] name = VIPS_META_N_PAGES -> 3
      [] name = VIPS_META_PAGE_HEIGHT -> 2
      [] name = "loop" -> 0
      [] name = "delay" -> <<100, 40, 40>>
      [] name = "heif-primary" -> 0

\* image.xres() in tenths of a pixel per millimetre: 0.5, 1.0 and 2.8.
XResTenths == {5, 10, 28}

JsonImages ==
    [width : {3}, height : {6}, bands : {3, 4},
     interpretation : {"srgb"}, format : {"uchar"},
     xres : XResTenths, tags : SUBSET TagNames]

\* image.get_typeof(name) != 0
HasTag(image, name) == name \in image.tags

has_profile(image) == HasTag(image, VIPS_META_ICC_NAME)

\* image.xres() > 1.0
has_density(image) == image.xres > 10

\* static_cast<int>(std::round(image.xres() * 25.4))
get_density(image) == Round(image.xres * 254, 100)

exif_orientation(image) ==
    IF HasTag(image, VIPS_META_ORIENTATION)
    THEN TagValue(VIPS_META_ORIENTATION)
    ELSE 0

\* image.has_alpha(): a fourth band on an sRGB image.
has_alpha(image) == image.bands = 4

image_type_id(image_type) ==
    CASE image_type = "Jpeg" -> "jpeg"
      [] image_type = "Png" -> "png"
      [] image_type = "Webp" -> "webp"
      [] image_type = "Tiff" -> "tiff"
      [] image_type = "Gif" -> "gif"
      [] image_type = "Svg" -> "svg"
      [] image_type = "Pdf" -> "pdf"
      [] image_type = "Heif" -> "heif"
      [] image_type = "Magick" -> "magick"
      [] OTHER -> "unknown"

Member(key, value) == [key |-> key, value |-> value]

\* json << "key": value << "," when the field is set.
TagMember(image, name, key) ==
    IF HasTag(image, name) THEN <<Member(key, TagValue(name))>> ELSE <<>>

\* The members from "pages" to "pagePrimary", with "delay" written before
\* "loop".
PageMembers_delay_first(image) ==
    TagMember(image, VIPS_META_N_PAGES, "pages")
    \o TagMember(image, VIPS_META_PAGE_HEIGHT, "pageHeight")
    \o TagMember(image, "delay", "delay")
    \o TagMember(image, "loop", "loop")
    \o TagMember(image, "heif-primary", "pagePrimary")

\* The members from "pages" to "pagePrimary".
PageMembers(image) ==
    TagMember(image, VIPS_META_N_PAGES, "pages")
    \o TagMember(image, VIPS_META_PAGE_HEIGHT, "pageHeight")
    \o TagMember(image, "loop", "loop")
    \o TagMember(image, "delay", "delay")
    \o TagMember(image, "heif-primary", "pagePrimary")

\* image_to_json(image, image_type)
image_to_json(image, image_type) ==
    <<Member("format", image_type_id(image_type)),
      Member("width", image.width),
      Member("height", image.height),
      Member("space", image.interpretation),
      Member("channels", image.bands),
      Member("depth", image.format)>>
    \o (IF has_density(image)
        THEN <<Member("density", get_density(image))>>
        ELSE <<>>)
    \o TagMember(image, "jpeg-chroma-subsample", "chromaSubsampling")
    \o <<Member("isProgressive", HasTag(image, "interlaced"))>>
    \o TagMember(image, "palette-bit-depth", "paletteBitDepth")
    \o PageMembers(image)
    \o <<Member("hasProfile", has_profile(image)),
         Member("hasAlpha", has_alpha(image)),
         Member("orientation", exif_orientation(image))>>

JsonCalls == [image : JsonImages, image_type : {"Jpeg", "Gif", "Unknown"}]

ImageToJson ==
    /\ pc = "ready"
    /\ ret' = image_to_json(args.image, args.image_type)
    /\ pc' = "done"
    /\ UNCHANGED <<args, log, pages, i, last>>
    /\ UNCHANGED govVars

JsonInit ==
    /\ GovInit
    /\ last = None
    /\ pc = "ready"
    /\ args \in JsonCalls
    /\ ret = None
    /\ log = <<>>
    /\ pages = <<>>
    /\ i = 0

JsonNext == ImageToJson

SpecJson == JsonInit /\ [][JsonNext]_vars

\* The fixed key order of the descriptive document.
KeyOrder ==
    <<"format", "width", "height", "space", "channels", "depth", "density",
      "chromaSubsampling", "isProgressive", "paletteBitDepth", "pages",
      "pageHeight", "loop", "delay", "pagePrimary", "hasProfile", "hasAlpha",
      "orientation">>
AlwaysKeys ==
    {"format", "width", "height", "space", "channels", "depth",
     "isProgressive", "hasProfile", "hasAlpha", "orientation"}
KeyRank(key) == CHOOSE r \in 1 .. Len(KeyOrder) : KeyOrder[r] = key

\* The data behind each optional key is present on the image.
Backed(image, key) ==
    CASE key = "density" -> image.xres > 10
      [] key = "chromaSubsampling" -> "jpeg-chroma-subsample" \in image.tags
      [] key = "paletteBitDepth" -> "palette-bit-depth" \in image.tags
      [] key = "pages" -> "n-pages" \in image.tags
      [] key = "pageHeight" -> "page-height" \in image.tags
      [] key = "loop" -> "loop" \in image.tags
      [] key = "delay" -> "delay" \in image.tags
      [] key = "pagePrimary" -> "heif-primary" \in image.tags

\* C8: whatever optional data the image carries, the keys of the document come
\* in the fixed order (each key is one of the eighteen and ranks strictly after
\* the key before it, so none comes twice), the ten always-present keys are
\* all there, and each of the eight optional keys is there exactly when its
\* data is present.
C8_KeyOrder ==
    pc = "done" =>
        LET emitted == {ret[k].key : k \in 1 .. Len(ret)}
            all == {KeyOrder[r] : r \in 1 .. Len(KeyOrder)}
        IN  /\ emitted \subseteq all
            /\ \A k \in 1 .. Len(ret) - 1 :
                    KeyRank(ret[k].key) < KeyRank(ret[k + 1].key)
            /\ AlwaysKeys \subseteq emitted
            /\ \A key \in all \ AlwaysKeys :
                    key \in emitted <=> Backed(args.image, key)

\* C8 witness: of the optional data only the density and the delays are
\* present; the document has twelve members, density the seventh, delay the
\* ninth and hasProfile the tenth.
C8_Witness ==
    /\ pc = "done"
    /\ args.image.xres = 28
    /\ args.image.tags = {"delay"}
    /\ Len(ret) = 12
    /\ ret[7] = [key |-> "density", value |-> 71]
    /\ ret[9] = [key |-> "delay", value |-> <<100, 40, 40>>]
    /\ ret[10].key = "hasProfile"

(***************************************************************************)
(* Format capability resolver: supported_savers_string.                    *)
(***************************************************************************)
MaskBits == 9         \* msk is drawn from 0 .. 2^MaskBits - 1

\* enums::Output: its seven enumerators take the values 1 << 1 .. 1 << 7. The
\* assignments checked: the enumerators in the order of the data model, and
\* the one of the saver example (bit 1 Jpeg, bit 3 Avif).
OutputEnums ==
    {[Jpeg |-> 2^1, Png |-> 2^2, Webp |-> 2^3, Avif |-> 2^4,
      Tiff |-> 2^5, Gif |-> 2^6, Json |-> 2^7],
     [Jpeg |-> 2^1, Png |-> 2^2, Avif |-> 2^3, Webp |-> 2^4,
      Tiff |-> 2^5, Gif |-> 2^6, Json |-> 2^7]}

\* The extensions determine_image_extension returns.
JPG == <<".", "j", "p", "g">>
WEBP == <<".", "w", "e", "b", "p">>
AVIF == <<".", "a", "v", "i", "f">>
TIFF == <<".", "t", "i", "f", "f">>
GIF == <<".", "g", "i", "f">>
JSON == <<".", "j", "s", "o", "n">>
PNG == <<".", "p", "n", "g">>

\* determine_image_extension(output), Output being the enumeration E.
determine_image_extension(output, E) ==
    CASE output = E.Jpeg -> JPG
      [] output = E.Webp -> WEBP
      [] output = E.Avif -> AVIF
      [] output = E.Tiff -> TIFF
      [] output = E.Gif -> GIF
      [] output = E.Json -> JSON
      [] OTHER -> PNG

\* std::string::substr(pos)
substr(str, pos) == SubSeq(str, pos + 1, Len(str))

\* a & b on unsigned integers
RECURSIVE BitAnd(_, _)
BitAnd(a, b) ==
    IF a = 0 \/ b = 0 THEN 0
    ELSE (a % 2) * (b % 2) + 2 * BitAnd(a \div 2, b \div 2)

\* The loop running from bit 0.
SaverBits_from_zero == <<0, 7>>

\* for (int i = 1; i <= 7; ++i): the first and the last value of i.
SaverBits == <<1, 7>>

\* supported_savers_string: result after the iterations up to i = k.
RECURSIVE SaversLoop(_, _, _)
SaversLoop(msk, E, k) ==
    IF k < SaverBits[1] THEN <<>>
    ELSE LET result == SaversLoop(msk, E, k - 1)
             output == 2^k
         IN  IF BitAnd(msk, output) # 0
             THEN LET saver == substr(determine_image_extension(output, E), 1)
                  IN  IF result = <<>>
                      THEN saver
                      ELSE result \o <<",", " ">> \o saver
             ELSE result

\* supported_savers_string(msk)
supported_savers_string(msk, E) == SaversLoop(msk, E, SaverBits[2])

SaversCalls == [msk : 0 .. 2^MaskBits - 1, Output : OutputEnums]

SupportedSaversString ==
    /\ pc = "ready"
    /\ ret' = supported_savers_string(args.msk, args.Output)
    /\ pc' = "done"
    /\ UNCHANGED <<args, log, pages, i, last>>
    /\ UNCHANGED govVars

SaversInit ==
    /\ GovInit
    /\ last = None
    /\ pc = "ready"
    /\ args \in SaversCalls
    /\ ret = None
    /\ log = <<>>
    /\ pages = <<>>
    /\ i = 0

SaversNext == SupportedSaversString

SpecSavers == SaversInit /\ [][SaversNext]_vars

\* The entries of a string split at each ", "; the empty string has none.
RECURSIVE SplitFrom(_, _, _)
SplitFrom(str, k, entry) ==
    IF k > Len(str) THEN <<entry>>
    ELSE IF k < Len(str) /\ str[k] = "," /\ str[k + 1] = " "
         THEN <<entry>> \o SplitFrom(str, k + 2, <<>>)
         ELSE SplitFrom(str, k + 1, Append(entry, str[k]))
Split(str) == IF str = <<>> THEN <<>> ELSE SplitFrom(str, 1, <<>>)

\* The elements of a set of integers in ascending order.
RECURSIVE Ascending(_)
Ascending(S) ==
    IF S = {} THEN <<>>
    ELSE LET m == CHOOSE x \in S : \A y \in S : x <= y
         IN  <<m>> \o Ascending(S \ {m})

\* C9: the string splits at ", " into one entry per set bit i of msk with
\* 1 <= i <= 7, in ascending order of i, the entry of bit i being the extension
\* of Output 1 << i without its dot; no entry is empty or holds a comma or a
\* space, so no separator leads or trails; bit 0 and the bits above 7 add
\* nothing, and with none of the bits 1 .. 7 set the string is empty.
C9_SaversString ==
    pc = "done" =>
        LET bits == Ascending({b \in 1 .. 7 : (args.msk \div 2^b) % 2 = 1})
            entries == Split(ret)
        IN  /\ Len(entries) = Len(bits)
            /\ \A k \in 1 .. Len(bits) :
                /\ <<".">> \o entries[k]
                      = determine_image_extension(2^(bits[k]), args.Output)
                /\ entries[k] # <<>>
                /\ \A c \in 1 .. Len(entries[k]) : entries[k][c] \notin {",", " "}
            /\ bits = <<>> <=> ret = <<>>

\* C9 witness: msk = (1 << 0) | (1 << 1) | (1 << 3) | (1 << 8) with bit 1 Jpeg
\* and bit 3 Avif gives "jpg, avif".
C9_Witness ==
    /\ pc = "done"
    /\ args.msk = 1 + 2 + 8 + 256
    /\ args.Output.Avif = 8
    /\ ret = <<"j", "p", "g", ",", " ", "a", "v", "i", "f">>

(***************************************************************************)
(* Format capability resolver: determine_image_type.                       *)
(***************************************************************************)
ImageTypes ==
    {"Jpeg", "Png", "Webp", "Tiff", "Gif", "Svg", "Pdf", "Heif", "Magick",
     "Unknown"}

\* "VipsForeignLoad", the start of every loader name.
ForeignLoad == <<"V", "i", "p", "s", "F", "o", "r", "e", "i", "g", "n", "L", "o", "a", "d">>
Loader(name) == ForeignLoad \o name

\* std::string::npos
npos == -1

\* loader.rfind(str, pos): the last index <= pos at which str occurs in
\* loader, or npos.
rfind(loader, str, pos) ==
    IF Len(str) > Len(loader) THEN npos
    ELSE LET found == {k \in 0 .. Min(pos, Len(loader) - Len(str)) :
                          SubSeq(loader, k + 1, k + Len(str)) = str}
         IN  IF found = {} THEN npos
             ELSE CHOOSE k \in found : \A j \in found : j <= k

\* The test as a comparison of the whole string.
Matches_whole(loader, str) == loader = str

\* loader.rfind(str, 0) == 0
Matches(loader, str) == rfind(loader, str, 0) = 0

\* VIPS_FOREIGN_LOAD_GIF, by VIPS_VERSION_AT_LEAST(8, 11, 0)
VIPS_FOREIGN_LOAD_GIF(at_least_8_11) ==
    IF at_least_8_11 THEN Loader(<<"N", "s", "g", "i", "f">>) ELSE Loader(<<"G", "i", "f">>)

\* determine_image_type(loader), in a build against the libvips version given.
determine_image_type(loader, at_least_8_11) ==
    IF Matches(loader, Loader(<<"J", "p", "e", "g">>)) THEN "Jpeg"
    ELSE IF Matches(loader, Loader(<<"P", "n", "g">>)) THEN "Png"
    ELSE IF Matches(loader, Loader(<<"W", "e", "b", "p">>)) THEN "Webp"
    ELSE IF Matches(loader, Loader(<<"T", "i", "f", "f">>)) THEN "Tiff"
    ELSE IF Matches(loader, VIPS_FOREIGN_LOAD_GIF(at_least_8_11)) THEN "Gif"
    ELSE IF Matches(loader, Loader(<<"S", "v", "g">>)) THEN "Svg"
    ELSE IF Matches(loader, Loader(<<"P", "d", "f">>)) THEN "Pdf"
    ELSE IF Matches(loader, Loader(<<"H", "e", "i", "f">>)) THEN "Heif"
    ELSE IF Matches(loader, Loader(<<"M", "a", "g", "i", "c", "k">>)) THEN "Magick"
    ELSE "Unknown"

\* The loader strings checked: nothing or a stray character, then nothing,
\* "VipsForeignLoad" alone or followed by a format name (known, unknown, cut
\* short or in another case), then nothing or the name of the input kind.
LoaderStrings ==
    LET heads == {<<>>, <<"X">>}
        formats == {<<"J", "p", "e", "g">>,
                    <<"P", "n", "g">>,
                    <<"W", "e", "b", "p">>,
                    <<"T", "i", "f", "f">>,
                    <<"N", "s", "g", "i", "f">>,
                    <<"G", "i", "f">>,
                    <<"S", "v", "g">>,
                    <<"P", "d", "f">>,
                    <<"H", "e", "i", "f">>,
                    <<"M", "a", "g", "i", "c", "k">>,
                    <<"F", "o", "o">>,
                    <<"J", "p", "e">>,
                    <<"j", "p", "e", "g">>}
        middles == {<<>>, ForeignLoad} \cup {Loader(f) : f \in formats}
        tails == {<<>>, <<"F", "i", "l", "e">>, <<"B", "u", "f", "f", "e", "r">>}
    IN  {h \o m \o t : h \in heads, m \in middles, t \in tails}

TypeCalls == [loader : LoaderStrings, at_least_8_11 : BOOLEAN]

DetermineImageType ==
    /\ pc = "ready"
    /\ ret' = determine_image_type(args.loader, args.at_least_8_11)
    /\ pc' = "done"
    /\ UNCHANGED <<args, log, pages, i, last>>
    /\ UNCHANGED govVars

TypeInit ==
    /\ GovInit
    /\ last = None
    /\ pc = "ready"
    /\ args \in TypeCalls
    /\ ret = None
    /\ log = <<>>
    /\ pages = <<>>
    /\ i = 0

TypeNext == DetermineImageType

SpecType == TypeInit /\ [][TypeNext]_vars

\* str begins with prefix.
StartsWith(str, prefix) ==
    /\ Len(prefix) <= Len(str)
    /\ \A k \in 1 .. Len(prefix) : str[k] = prefix[k]

\* The known loader-name prefixes of a build and the type of each.
KnownLoaders(at_least_8_11) ==
    {<<<<"V", "i", "p", "s", "F", "o", "r", "e", "i", "g", "n", "L", "o", "a", "d", "J", "p", "e", "g">>, "Jpeg">>,
     <<<<"V", "i", "p", "s", "F", "o", "r", "e", "i", "g", "n", "L", "o", "a", "d", "P", "n", "g">>, "Png">>,
     <<<<"V", "i", "p", "s", "F", "o", "r", "e", "i", "g", "n", "L", "o", "a", "d", "W", "e", "b", "p">>, "Webp">>,
     <<<<"V", "i", "p", "s", "F", "o", "r", "e", "i", "g", "n", "L", "o", "a", "d", "T", "i", "f", "f">>, "Tiff">>,
     <<IF at_least_8_11
       THEN <<"V", "i", "p", "s", "F", "o", "r", "e", "i", "g", "n", "L", "o", "a", "d", "N", "s", "g", "i", "f">>
       ELSE <<"V", "i", "p", "s", "F", "o", "r", "e", "i", "g", "n", "L", "o", "a", "d", "G", "i", "f">>, "Gif">>,
     <<<<"V", "i", "p", "s", "F", "o", "r", "e", "i", "g", "n", "L", "o", "a", "d", "S", "v", "g">>, "Svg">>,
     <<<<"V", "i", "p", "s", "F", "o", "r", "e", "i", "g", "n", "L", "o", "a", "d", "P", "d", "f">>, "Pdf">>,
     <<<<"V", "i", "p", "s", "F", "o", "r", "e", "i", "g", "n", "L", "o", "a", "d", "H", "e", "i", "f">>, "Heif">>,
     <<<<"V", "i", "p", "s", "F", "o", "r", "e", "i", "g", "n", "L", "o", "a", "d", "M", "a", "g", "i", "c", "k">>, "Magick">>}

\* C10: every loader string yields one ImageType: the type of the known
\* loader-name prefix the string starts with, and Unknown when it starts with
\* none of them, as "VipsForeignLoadFoo" and the empty string do.
C10_TypeOfPrefix ==
    pc = "done" =>
        LET known == KnownLoaders(args.at_least_8_11)
            hits == {e \in known : StartsWith(args.loader, e[1])}
        IN  /\ ret \in ImageTypes
            /\ \A e \in hits : ret = e[2]
            /\ hits = {} => ret = "Unknown"
            /\ args.loader = <<>> => ret = "Unknown"

\* C10 witness: "VipsForeignLoadFoo" has been given the type Unknown.
C10_Witness ==
    /\ pc = "done"
    /\ args.loader = <<"V", "i", "p", "s", "F", "o", "r", "e", "i", "g", "n", "L", "o", "a", "d", "F", "o", "o">>
    /\ ret = "Unknown"

(***************************************************************************)
(* Two image handles, each set up by its own setup_timeout_handler call.   *)
(***************************************************************************)

\* The one setup_timeout_handler call made on an image.
PairSetup(img, process_timeout) ==
    /\ setups[img] = <<>>
    /\ setup_timeout_handler(img, process_timeout)

\* Both images, set up once each and notified in any interleaving.
PairNext ==
    \/ \E img \in Images, t \in Timeouts : PairSetup(img, t)
    \/ \E img \in Images, run \in Runs, p \in Percents : Eval(img, run, p)

SpecPair == Init /\ [][PairNext]_vars

\* C11: a notification for image a, tripping or not, leaves the budget cell,
\* the callbacks, the kill flag and the count of kills of every other image b
\* as they were, and the messages it hands to vips_error are a's own: one per
\* kill of a, each carrying the elapsed seconds of that notification and a
\* budget held by a cell of a. An image b armed by one call trips (its budget
\* goes from Budget(b) to 0, its kill flag is set, one error is recorded)
\* exactly in the steps that deliver to b itself a notification with elapsed
\* >= Budget(b) while b has not yet tripped.
C11_OwnBudgetCell ==
    /\ [](Len(vips_error_buffer) = SumKillCalls(Images))
    /\ [][\A a \in Images : Notified(a) =>
            LET before == Len(vips_error_buffer)
                after == Len(vips_error_buffer')
            IN  /\ \A b \in Images \ {a} :
                    /\ timeout'[b] = timeout[b]
                    /\ handlers'[b] = handlers[b]
                    /\ progress'[b] = progress[b]
                    /\ kill'[b] = kill[b]
                    /\ killCalls'[b] = killCalls[b]
                /\ after - before = killCalls'[a] - killCalls[a]
                /\ SubSeq(vips_error_buffer', 1, before) = vips_error_buffer
                /\ \A k \in before + 1 .. after :
                    /\ vips_error_buffer'[k].run = last'.run
                    /\ vips_error_buffer'[k].percent = last'.percent
                    /\ \E c \in 1 .. Len(timeout[a]) :
                          vips_error_buffer'[k].timeout = timeout[a][c]]_vars
    /\ [][\A b \in Images : ArmedOnce(b) =>
            LET own == /\ Notified(b)
                       /\ timeout[b] = <<Budget(b)>>
                       /\ last'.run >= Budget(b)
            IN  /\ own <=> killCalls'[b] = killCalls[b] + 1
                /\ own <=> (timeout[b] # <<0>> /\ timeout'[b] = <<0>>)
                /\ own <=> (~kill[b] /\ kill'[b])
                /\ ~own => /\ timeout'[b] = timeout[b]
                           /\ kill'[b] = kill[b]
                           /\ killCalls'[b] = killCalls[b]]_vars

\* C11 witness: imgA was armed with budget 1 and imgB with budget 2; a
\* notification for imgA with elapsed 2 has just tripped imgA, and imgB still
\* holds its budget of 2 and is not killed.
C11_Witness ==
    /\ setups = [imgA |-> <<1>>, imgB |-> <<2>>]
    /\ last = [op |-> "eval", image |-> "imgA", run |-> 2, percent |-> 90]
    /\ timeout = [imgA |-> <<0>>, imgB |-> <<2>>]
    /\ kill = [imgA |-> TRUE, imgB |-> FALSE]
    /\ killCalls = [imgA |-> 1, imgB |-> 0]
    /\ vips_error_buffer = <<TimeoutMessage(1, 2, 90)>>

=============================================================================
